---- MODULE Spec2Model ----
(***************************************************************************)
(* Model of backend/server.py: the deterministic wallpaper selector        *)
(* (generate_wallpaper) and the lazily initialised agent handles used by   *)
(* the chat / search / capabilities endpoints.                             *)
(*                                                                         *)
(* Text is modelled as Python models it: a str is a sequence of Unicode    *)
(* code points, bytes are a sequence of 0..255.  The URL templates, which  *)
(* are pure ASCII and only ever searched and spliced, are kept as strings. *)
(***************************************************************************)
EXTENDS Integers, Sequences, FiniteSets, Bags, TLC

(***************************************************************************)
(* str helpers                                                             *)
(***************************************************************************)

\* The characters the literals of the program and of the requests are written
\* with: space, digits and the ASCII letters.
AsciiDigits == "0123456789"
AsciiUpper  == "ABCDEFGHIJKLMNOPQRSTUVWXYZ"
AsciiLower  == "abcdefghijklmnopqrstuvwxyz"

RECURSIVE IndexOfChar(_, _, _)
IndexOfChar(c, s, i) ==
    IF i > Len(s) THEN 0
    ELSE IF SubSeq(s, i, i) = c THEN i
    ELSE IndexOfChar(c, s, i + 1)

\* ord(c) for a one-character string over those characters.
Ord(c) ==
    IF c = " " THEN 32
    ELSE IF IndexOfChar(c, AsciiDigits, 1) # 0 THEN 47 + IndexOfChar(c, AsciiDigits, 1)
    ELSE IF IndexOfChar(c, AsciiUpper, 1) # 0 THEN 64 + IndexOfChar(c, AsciiUpper, 1)
    ELSE 96 + IndexOfChar(c, AsciiLower, 1)

\* A string literal of the program as the sequence of its code points.
RECURSIVE Str(_)
Str(s) == IF Len(s) = 0 THEN << >>
          ELSE <<Ord(SubSeq(s, 1, 1))>> \o Str(SubSeq(s, 2, Len(s)))

\* str.lower() of one code point: ASCII and Latin-1 capitals move up by 32,
\* KELVIN SIGN (U+212A) becomes "k", U+0130 becomes "i" + U+0307; every other
\* code point used here has no lower-case mapping and is returned unchanged.
LowerCp(c) ==
    IF c >= 65 /\ c <= 90 THEN <<c + 32>>
    ELSE IF c >= 192 /\ c <= 222 /\ c # 215 THEN <<c + 32>>
    ELSE IF c = 8490 THEN <<107>>
    ELSE IF c = 304 THEN <<105, 775>>
    ELSE <<c>>

RECURSIVE lower(_)
lower(s) == IF Len(s) = 0 THEN << >> ELSE LowerCp(Head(s)) \o lower(Tail(s))

\* `sub in text` for two str values.
RECURSIVE FindFrom(_, _, _)
FindFrom(sub, text, i) ==
    IF i + Len(sub) - 1 > Len(text) THEN 0
    ELSE IF SubSeq(text, i, i + Len(sub) - 1) = sub THEN i
    ELSE FindFrom(sub, text, i + 1)

Contains(sub, text) == FindFrom(sub, text, 1) # 0

\* str.replace(old, new): every non-overlapping occurrence, left to right.
RECURSIVE replace(_, _, _)
replace(s, old, new) ==
    LET at == FindFrom(old, s, 1) IN
    IF at = 0 THEN s
    ELSE SubSeq(s, 1, at - 1) \o new
         \o replace(SubSeq(s, at + Len(old), Len(s)), old, new)

\* str.encode() (UTF-8, errors="strict").  A surrogate code point
\* (U+D800..U+DFFF) cannot be encoded: UnicodeEncodeError.
IsSurrogate(c) == c >= 55296 /\ c <= 57343

\* (variant: encode("ascii"), which raises on every code point above 127)
Encodable_AsciiOnly(s) == \A i \in 1..Len(s) : s[i] < 128

Encodable(s) == \A i \in 1..Len(s) : ~IsSurrogate(s[i])

Utf8Cp(c) ==
    IF c < 128 THEN <<c>>
    ELSE IF c < 2048 THEN <<192 + (c \div 64), 128 + (c % 64)>>
    ELSE IF c < 65536
         THEN <<224 + (c \div 4096), 128 + ((c \div 64) % 64), 128 + (c % 64)>>
    ELSE <<240 + (c \div 262144), 128 + ((c \div 4096) % 64),
           128 + ((c \div 64) % 64), 128 + (c % 64)>>

RECURSIVE encode(_)
encode(s) == IF Len(s) = 0 THEN << >> ELSE Utf8Cp(Head(s)) \o encode(Tail(s))

(***************************************************************************)
(* hashlib.md5 (RFC 1321).  A 32-bit word is the pair <<high 16 bits, low  *)
(* 16 bits>>, so that no intermediate value leaves the integers TLC has.   *)
(***************************************************************************)

\* a & b for two 4-bit values: And4[a + 1][b + 1]
And4 ==
    <<
      <<0, 0, 0, 0, 0, 0, 0, 0, 0, 0, 0, 0, 0, 0, 0, 0>>,
      <<0, 1, 0, 1, 0, 1, 0, 1, 0, 1, 0, 1, 0, 1, 0, 1>>,
      <<0, 0, 2, 2, 0, 0, 2, 2, 0, 0, 2, 2, 0, 0, 2, 2>>,
      <<0, 1, 2, 3, 0, 1, 2, 3, 0, 1, 2, 3, 0, 1, 2, 3>>,
      <<0, 0, 0, 0, 4, 4, 4, 4, 0, 0, 0, 0, 4, 4, 4, 4>>,
      <<0, 1, 0, 1, 4, 5, 4, 5, 0, 1, 0, 1, 4, 5, 4, 5>>,
      <<0, 0, 2, 2, 4, 4, 6, 6, 0, 0, 2, 2, 4, 4, 6, 6>>,
      <<0, 1, 2, 3, 4, 5, 6, 7, 0, 1, 2, 3, 4, 5, 6, 7>>,
      <<0, 0, 0, 0, 0, 0, 0, 0, 8, 8, 8, 8, 8, 8, 8, 8>>,
      <<0, 1, 0, 1, 0, 1, 0, 1, 8, 9, 8, 9, 8, 9, 8, 9>>,
      <<0, 0, 2, 2, 0, 0, 2, 2, 8, 8, 10, 10, 8, 8, 10, 10>>,
      <<0, 1, 2, 3, 0, 1, 2, 3, 8, 9, 10, 11, 8, 9, 10, 11>>,
      <<0, 0, 0, 0, 4, 4, 4, 4, 8, 8, 8, 8, 12, 12, 12, 12>>,
      <<0, 1, 0, 1, 4, 5, 4, 5, 8, 9, 8, 9, 12, 13, 12, 13>>,
      <<0, 0, 2, 2, 4, 4, 6, 6, 8, 8, 10, 10, 12, 12, 14, 14>>,
      <<0, 1, 2, 3, 4, 5, 6, 7, 8, 9, 10, 11, 12, 13, 14, 15>> >>

\* a & b for two 16-bit values, four bits at a time
And16(a, b) ==
    And4[(a % 16) + 1][(b % 16) + 1]
    + 16 * And4[((a \div 16) % 16) + 1][((b \div 16) % 16) + 1]
    + 256 * And4[((a \div 256) % 16) + 1][((b \div 256) % 16) + 1]
    + 4096 * And4[(a \div 4096) + 1][(b \div 4096) + 1]

\* a + b = (a ^ b) + 2 * (a & b)  and  a | b = (a ^ b) + (a & b)
Xor16(a, b) == a + b - 2 * And16(a, b)
Or16(a, b)  == a + b - And16(a, b)

And32(x, y) == <<And16(x[1], y[1]), And16(x[2], y[2])>>
Xor32(x, y) == <<Xor16(x[1], y[1]), Xor16(x[2], y[2])>>
Or32(x, y)  == <<Or16(x[1], y[1]), Or16(x[2], y[2])>>
Not32(x)    == <<65535 - x[1], 65535 - x[2]>>

Add32(x, y) ==
    LET lo == x[2] + y[2] IN
    <<(x[1] + y[1] + (lo \div 65536)) % 65536, lo % 65536>>

\* left rotation of a 32-bit word by s, 0 < s < 32
Rotl32(x, s) ==
    LET y == IF s >= 16 THEN <<x[2], x[1]>> ELSE x
        r == s % 16
    IN  <<((y[1] * (2 ^ r)) % 65536) + (y[2] \div (2 ^ (16 - r))),
          ((y[2] * (2 ^ r)) % 65536) + (y[1] \div (2 ^ (16 - r)))>>

\* K[i] = floor(2^32 * abs(sin(i + 1)))
MD5K ==
    <<
      <<55146, 42104>>, <<59591, 46934>>, <<9248, 28891>>, <<49597, 52974>>,
      <<62844, 4015>>, <<18311, 50730>>, <<43056, 17939>>, <<64838, 38145>>,
      <<27008, 39128>>, <<35652, 63407>>, <<65535, 23473>>, <<35164, 55230>>,
      <<27536, 4386>>, <<64920, 29075>>, <<42617, 17294>>, <<18868, 2081>>,
      <<63006, 9570>>, <<49216, 45888>>, <<9822, 23121>>, <<59830, 51114>>,
      <<54831, 4189>>, <<580, 5203>>, <<55457, 59009>>, <<59347, 64456>>,
      <<8673, 52710>>, <<49975, 2006>>, <<62677, 3463>>, <<17754, 5357>>,
      <<43491, 59653>>, <<64751, 41976>>, <<26479, 729>>, <<36138, 19594>>,
      <<65530, 14658>>, <<34673, 63105>>, <<28061, 24866>>, <<64997, 14348>>,
      <<42174, 59972>>, <<19422, 53161>>, <<63163, 19296>>, <<48831, 48240>>,
      <<10395, 32454>>, <<60065, 10234>>, <<54511, 12421>>, <<1160, 7429>>,
      <<55764, 53305>>, <<59099, 39397>>, <<8098, 31992>>, <<50348, 22117>>,
      <<62505, 8772>>, <<17194, 65431>>, <<43924, 9127>>, <<64659, 41017>>,
      <<25947, 22979>>, <<36620, 52370>>, <<65519, 62589>>, <<34180, 24017>>,
      <<28584, 32335>>, <<65068, 59104>>, <<41729, 17172>>, <<19976, 4513>>,
      <<63315, 32386>>, <<48442, 62005>>, <<10967, 53947>>, <<60294, 54161>> >>

\* per-round shift amounts, four per group of sixteen rounds
MD5S == << <<7, 12, 17, 22>>, <<5, 9, 14, 20>>, <<4, 11, 16, 23>>, <<6, 10, 15, 21>> >>

\* initial chaining value A, B, C, D
MD5Init == << <<26437, 8961>>, <<61389, 43913>>, <<39098, 56574>>, <<4146, 21622>> >>

\* Padding: 0x80, zeros up to 56 mod 64, then the bit length as 64 bits
\* little-endian (messages here are far shorter than 2^24 bytes).
RECURSIVE Zeros(_)
Zeros(n) == IF n = 0 THEN << >> ELSE <<0>> \o Zeros(n - 1)

MD5Pad(msg) ==
    LET n    == Len(msg)
        bits == 8 * n
    IN  msg \o <<128>> \o Zeros((119 - (n % 64)) % 64)
            \o <<bits % 256, (bits \div 256) % 256, (bits \div 65536) % 256>>
            \o Zeros(5)

\* the j-th (0-based) little-endian 32-bit word of the block starting at off
MD5Word(m, off, j) ==
    LET b == off + 4 * j IN
    <<m[b + 3] + 256 * m[b + 4], m[b + 1] + 256 * m[b + 2]>>

\* one of the 64 operations, on state st = <<A, B, C, D>>
MD5Step(st, m, off, i) ==
    LET A == st[1]
        B == st[2]
        C == st[3]
        D == st[4]
        F == IF i < 16 THEN Or32(And32(B, C), And32(Not32(B), D))
             ELSE IF i < 32 THEN Or32(And32(D, B), And32(Not32(D), C))
             ELSE IF i < 48 THEN Xor32(Xor32(B, C), D)
             ELSE Xor32(C, Or32(B, Not32(D)))
        g == IF i < 16 THEN i
             ELSE IF i < 32 THEN (5 * i + 1) % 16
             ELSE IF i < 48 THEN (3 * i + 5) % 16
             ELSE (7 * i) % 16
        sum == Add32(Add32(Add32(A, F), MD5K[i + 1]), MD5Word(m, off, g))
    IN  <<D, Add32(B, Rotl32(sum, MD5S[(i \div 16) + 1][(i % 4) + 1])), B, C>>

\* the 64 operations in turn (the state is a 4-tuple at every round; reading
\* its length makes each round's state be computed before the next is begun)
RECURSIVE MD5Rounds(_, _, _, _)
MD5Rounds(st, m, off, i) ==
    IF i = 64 \/ Len(st) # 4 THEN st
    ELSE MD5Rounds(MD5Step(st, m, off, i), m, off, i + 1)

RECURSIVE MD5Blocks(_, _, _)
MD5Blocks(st, m, off) ==
    IF off >= Len(m) THEN st
    ELSE LET r == MD5Rounds(st, m, off, 0) IN
         MD5Blocks(<<Add32(st[1], r[1]), Add32(st[2], r[2]),
                     Add32(st[3], r[3]), Add32(st[4], r[4])>>, m, off + 64)

\* the 16 digest bytes: A, B, C, D each little-endian
WordBytes(w) == <<w[2] % 256, w[2] \div 256, w[1] % 256, w[1] \div 256>>

md5(msg) ==
    LET st == MD5Blocks(MD5Init, MD5Pad(msg), 0) IN
    WordBytes(st[1]) \o WordBytes(st[2]) \o WordBytes(st[3]) \o WordBytes(st[4])

HexDigits == "0123456789abcdef"

\* .hexdigest(): two lower-case hex characters per byte
RECURSIVE hexdigest(_)
hexdigest(bytes) ==
    IF Len(bytes) = 0 THEN ""
    ELSE SubSeq(HexDigits, (Head(bytes) \div 16) + 1, (Head(bytes) \div 16) + 1)
         \o SubSeq(HexDigits, (Head(bytes) % 16) + 1, (Head(bytes) % 16) + 1)
         \o hexdigest(Tail(bytes))

\* int(s, 16)
RECURSIVE int16(_)
int16(s) ==
    IF Len(s) = 0 THEN 0
    ELSE 16 * int16(SubSeq(s, 1, Len(s) - 1))
         + (IndexOfChar(SubSeq(s, Len(s), Len(s)), HexDigits, 1) - 1)

(***************************************************************************)
(* State                                                                   *)
(***************************************************************************)

VARIABLES
    pc,            \* "idle": no wallpaper request yet; "received": one awaits
                   \* its handler; "returned": the handler has returned;
                   \* "repeated": it has returned for a second or later request
    request,       \* the WallpaperRequest last received
    result,        \* what generate_wallpaper returned for it
    first,         \* the first wallpaper exchange the server had
    search_agent,  \* global search_agent
    chat_agent,    \* global chat_agent
    agents_built,  \* agent objects stored in a handle so far
    inflight,      \* bag of handlers suspended at await agent.execute(...)
    chat_reply,    \* the last reply of POST /api/chat
    status_checks  \* db.status_checks

(***************************************************************************)
(* Request and response models                                             *)
(***************************************************************************)

\* Python's None where the value is otherwise a string or a handle (image_url,
\* error, an unset agent handle)
None == "None"

\* Optional[str] where a str is a sequence of code points (style): None is the
\* empty tuple and a str s is the one-element tuple <<s>>.
NoStr == << >>
Some(s) == <<s>>

\* generate_wallpaper.sample_wallpapers: the dict's items in insertion order
sample_wallpapers ==
    << [category   |-> "nature",
        wallpapers |->
          <<"https://images.unsplash.com/photo-1506905925346-21bda4d32df4?w=512&h=910&fit=crop&auto=format",
            "https://images.unsplash.com/photo-1441974231531-c6227db76b6e?w=512&h=910&fit=crop&auto=format",
            "https://images.unsplash.com/photo-1501594907352-04cda38ebc29?w=512&h=910&fit=crop&auto=format">>],
       [category   |-> "city",
        wallpapers |->
          <<"https://images.unsplash.com/photo-1449824913935-59a10b8d2000?w=512&h=910&fit=crop&auto=format",
            "https://images.unsplash.com/photo-1519501025264-65ba15a82390?w=512&h=910&fit=crop&auto=format">>],
       [category   |-> "abstract",
        wallpapers |->
          <<"https://images.unsplash.com/photo-1618005182384-a83a8bd57fbe?w=512&h=910&fit=crop&auto=format",
            "https://images.unsplash.com/photo-1557683304-673a23048d34?w=512&h=910&fit=crop&auto=format">>],
       [category   |-> "space",
        wallpapers |->
          <<"https://images.unsplash.com/photo-1446776877081-d282a0f896e2?w=512&h=910&fit=crop&auto=format",
            "https://images.unsplash.com/photo-1419242902214-272b3f66ee7a?w=512&h=910&fit=crop&auto=format">>],
       [category   |-> "dark",
        wallpapers |->
          <<"https://images.unsplash.com/photo-1618556450991-2f1af64e8191?w=512&h=910&fit=crop&auto=format",
            "https://images.unsplash.com/photo-1547036967-23d11aacaee0?w=512&h=910&fit=crop&auto=format">>],
       [category   |-> "minimal",
        wallpapers |->
          <<"https://images.unsplash.com/photo-1557683316-973673baf926?w=512&h=910&fit=crop&auto=format",
            "https://images.unsplash.com/photo-1574169208507-84376144848b?w=512&h=910&fit=crop&auto=format">>] >>

\* generate_wallpaper.default_wallpapers
default_wallpapers ==
    <<"https://images.unsplash.com/photo-1506905925346-21bda4d32df4?w=512&h=910&fit=crop&auto=format",
      "https://images.unsplash.com/photo-1441974231531-c6227db76b6e?w=512&h=910&fit=crop&auto=format",
      "https://images.unsplash.com/photo-1449824913935-59a10b8d2000?w=512&h=910&fit=crop&auto=format",
      "https://images.unsplash.com/photo-1618005182384-a83a8bd57fbe?w=512&h=910&fit=crop&auto=format">>

(***************************************************************************)
(* generate_wallpaper, statement by statement                              *)
(***************************************************************************)

\* request.style or ""
style_or_empty(style) == IF style = NoStr THEN << >> ELSE style[1]

\* (variant: the style is left out of the text)
combined_text_PromptOnly(req) == lower(req.prompt)

\* combined_text = f"{prompt_lower} {style_lower}"
combined_text(req) ==
    lower(req.prompt) \o <<32>> \o lower(style_or_empty(req.style))

\* for category, wallpapers in sample_wallpapers.items(): if category in
\* combined_text: ... break.  The position of the first item from i on whose
\* category occurs in the text, 0 when the loop ends without a break.
\* (variant: the loop without its break, so the last match wins)
RECURSIVE first_match_LastWins(_, _)
first_match_LastWins(text, i) ==
    IF i > Len(sample_wallpapers) THEN 0
    ELSE LET later == first_match_LastWins(text, i + 1) IN
         IF later # 0 THEN later
         ELSE IF Contains(Str(sample_wallpapers[i].category), text) THEN i
         ELSE 0

RECURSIVE first_match(_, _)
first_match(text, i) ==
    IF i > Len(sample_wallpapers) THEN 0
    ELSE IF Contains(Str(sample_wallpapers[i].category), text) THEN i
    ELSE first_match(text, i + 1)

\* (variant: an empty prompt is sent straight to the default list)
select_wallpapers_EmptyIsDefault(req) ==
    LET at == first_match(combined_text(req), 1) IN
    IF at = 0 \/ req.prompt = << >> THEN default_wallpapers
    ELSE sample_wallpapers[at].wallpapers

\* selected_wallpapers after the loop
select_wallpapers(req) ==
    LET at == first_match(combined_text(req), 1) IN
    IF at = 0 THEN default_wallpapers ELSE sample_wallpapers[at].wallpapers

\* prompt_hash = hashlib.md5(request.prompt.encode()).hexdigest()
prompt_hash(req) == hexdigest(md5(encode(req.prompt)))

\* (variant: the modulus is the length of the default list)
index_of_DefaultLength(req, selected) ==
    int16(SubSeq(prompt_hash(req), 1, 2)) % Len(default_wallpapers)

\* (variant: the lower-cased prompt is hashed)
index_of_Lowered(req, selected) ==
    int16(SubSeq(hexdigest(md5(encode(lower(req.prompt)))), 1, 2))
        % Len(selected)

\* (variant: the position moves on with a count kept in the process)
index_of_Rotating(req, selected) ==
    (int16(SubSeq(prompt_hash(req), 1, 2)) + agents_built) % Len(selected)

\* wallpaper_index = int(prompt_hash[:2], 16) % len(selected_wallpapers)
index_of(req, selected) ==
    int16(SubSeq(prompt_hash(req), 1, 2)) % Len(selected)

\* (variant: the chain without its "3:4" branch)
adjust_dimensions_NoPortrait(selected_wallpaper, aspect_ratio) ==
    IF aspect_ratio = "16:9"
    THEN replace(selected_wallpaper, "w=512&h=910", "w=910&h=512")
    ELSE IF aspect_ratio = "1:1"
    THEN replace(selected_wallpaper, "w=512&h=910", "w=512&h=512")
    ELSE selected_wallpaper

\* the if / elif chain on request.aspect_ratio
adjust_dimensions(selected_wallpaper, aspect_ratio) ==
    IF aspect_ratio = "16:9"
    THEN replace(selected_wallpaper, "w=512&h=910", "w=910&h=512")
    ELSE IF aspect_ratio = "1:1"
    THEN replace(selected_wallpaper, "w=512&h=910", "w=512&h=512")
    ELSE IF aspect_ratio = "3:4"
    THEN replace(selected_wallpaper, "w=512&h=910", "w=512&h=683")
    ELSE selected_wallpaper

\* except Exception as e: the success=False response, error = str(e)
failure(req, e) ==
    [success      |-> FALSE,
     image_url    |-> None,
     prompt       |-> req.prompt,
     aspect_ratio |-> req.aspect_ratio,
     error        |-> e]

\* The handler's result: the WallpaperResponse it returns, with the values
\* its local variables selected_wallpapers and wallpaper_index held when it
\* left the try block.  Two statements of the block can raise on str inputs:
\* request.prompt.encode() (UnicodeEncodeError, wallpaper_index not yet
\* assigned) and the subscript selected_wallpapers[wallpaper_index]
\* (IndexError).
generate_wallpaper(req) ==
    LET selected == select_wallpapers(req) IN
    IF ~Encodable(req.prompt)
    THEN [response            |-> failure(req, "UnicodeEncodeError"),
          selected_wallpapers |-> selected]
    ELSE LET index == index_of(req, selected) IN
         IF index + 1 \notin DOMAIN selected
         THEN [response            |-> failure(req, "IndexError"),
               selected_wallpapers |-> selected,
               wallpaper_index     |-> index]
         ELSE [response |->
                   [success      |-> TRUE,
                    image_url    |-> adjust_dimensions(selected[index + 1],
                                                       req.aspect_ratio),
                    prompt       |-> req.prompt,
                    aspect_ratio |-> req.aspect_ratio,
                    error        |-> None],
               selected_wallpapers |-> selected,
               wallpaper_index     |-> index]

(***************************************************************************)
(* Requests considered                                                     *)
(***************************************************************************)

\* longest prompt, in words, built from Vocabulary
MaxWords == 2

Vocabulary == {Str("dark"), Str("Minimal"), Str("sky")}

RECURSIVE Phrases(_)
Phrases(n) ==
    IF n = 0 THEN {<< >>}
    ELSE IF n = 1 THEN Vocabulary \cup Phrases(0)
    ELSE Phrases(n - 1)
         \cup {p \o <<32>> \o w : p \in Phrases(n - 1) \ {<< >>}, w \in Vocabulary}

\* prompts of the repository's test and of the specification's scenarios,
\* prompts with capitals, with a keyword inside a longer word, with code
\* points outside ASCII, and with a lone surrogate
Fixtures ==
    { Str("Beautiful sunset over mountains with purple sky"),
      Str("quantum physics diagram"),
      Str("Dark City"),
      Str("cityscape"),
      Str("NATURE space"),
      Str("abstract art"),
      Str("DAR") \o <<8490>>,
      Str("caf") \o <<233>>,
      Str("nature") \o <<55296>>,
      <<56832>> }

Prompts == Phrases(MaxWords) \cup Fixtures

Styles == {NoStr, Some(Str("")), Some(Str("nature")), Some(Str("Minimal"))}

AspectRatios == {"9:16", "16:9", "1:1", "3:4", "21:9"}

Requests ==
    [prompt : Prompts, aspect_ratio : AspectRatios, style : Styles]

(***************************************************************************)
(* The agent endpoints' vocabulary                                         *)
(***************************************************************************)

\* search_agent / chat_agent = None (server.py lines 29-30).  An agent object
\* held by a handle is named by its serial number 1, 2, ... among the objects
\* ever stored in a handle.
NoAgent == 0

\* most agent objects ever stored in the two handles
MaxAgents == 3

\* most handlers suspended at `await agent.execute(...)` at one time
MaxInflight == 2

\* most documents in db.status_checks
MaxStatus == 1

\* ChatRequest.agent_type is any str: the two the handler knows and one it
\* does not
AgentTypes == {"chat", "search", "image"}

\* how `await agent.execute(...)` ends: a response with success True, one
\* with success False, an exception
ExecuteOutcomes == {"ok", "failed", "raised"}

ClientNames == {"web"}

\* wallpaper requests sent to the running server
ServerRequests ==
    [prompt : {Str("Dark City"), Str("sky")}, aspect_ratio : {"16:9"},
     style : {NoStr}]

vars == <<pc, request, result, first, search_agent, chat_agent, agents_built,
          inflight, chat_reply, status_checks>>

wallpaper_vars == <<pc, request, result, first>>
agent_vars     == <<search_agent, chat_agent, agents_built, inflight, chat_reply>>

NoRequest == [prompt |-> << >>, aspect_ratio |-> "", style |-> NoStr]
NoResult  == [response |-> None]
NoReply   == [status |-> 0]

\* module level of server.py: both handles None, nothing in flight
ServerStart ==
    /\ search_agent = NoAgent
    /\ chat_agent = NoAgent
    /\ agents_built = 0
    /\ inflight = EmptyBag
    /\ chat_reply = NoReply
    /\ status_checks = << >>

(***************************************************************************)
(* POST /api/wallpaper/generate                                            *)
(***************************************************************************)

\* One call of the handler on one request drawn from Requests.
Init ==
    /\ pc = "received"
    /\ request \in Requests
    /\ result = NoResult
    /\ first = NoResult
    /\ ServerStart

HandleWallpaper ==
    /\ pc = "received"
    /\ result' = generate_wallpaper(request)
    /\ pc' = "returned"
    /\ UNCHANGED <<request, first>>
    /\ UNCHANGED <<agent_vars, status_checks>>

Next == HandleWallpaper

Spec == Init /\ [][Next]_vars

Returned == pc = "returned"

(***************************************************************************)
(* Properties of generate_wallpaper (specification Spec)                   *)
(***************************************************************************)

\* the categories in the order the properties name them
CategoryNames == <<"nature", "city", "abstract", "space", "dark", "minimal">>

\* lower(prompt) + " " + lower(style or "") of the request handled
ClaimText ==
    lower(request.prompt) \o <<32>>
        \o lower(IF request.style = NoStr THEN << >> ELSE request.style[1])

\* the i-th category's name is a substring of that text
Occurs(i) == Contains(Str(CategoryNames[i]), ClaimText)

NoneOccurs == \A i \in 1..Len(CategoryNames) : ~Occurs(i)

Bucket(i) == sample_wallpapers[i].wallpapers

IndexAssigned == "wallpaper_index" \in DOMAIN result

\* a template was picked: the subscript selected_wallpapers[wallpaper_index]
\* was evaluated and is in range
TemplateChosen ==
    IndexAssigned /\ (result.wallpaper_index + 1) \in DOMAIN result.selected_wallpapers

Template == result.selected_wallpapers[result.wallpaper_index + 1]

\* u is t with the literal "w=512&h=910" cut out and new put in its place
Spliced(t, new, u) ==
    \E k \in 0..(Len(t) - 11) :
        /\ SubSeq(t, k + 1, k + 11) = "w=512&h=910"
        /\ u = SubSeq(t, 1, k) \o new \o SubSeq(t, k + 12, Len(t))

\* u is what the properties say is returned for template t and ratio a
Remapped(t, a, u) ==
    IF a = "16:9" THEN Spliced(t, "w=910&h=512", u)
    ELSE IF a = "1:1" THEN Spliced(t, "w=512&h=512", u)
    ELSE IF a = "3:4" THEN Spliced(t, "w=512&h=683", u)
    ELSE u = t

AllTemplates ==
    {default_wallpapers[k] : k \in DOMAIN default_wallpapers}
    \cup UNION {{Bucket(i)[k] : k \in DOMAIN Bucket(i)} : i \in 1..Len(sample_wallpapers)}

NormalShape ==
    /\ result.response.success = TRUE
    /\ result.response.image_url # None
    /\ \E t \in AllTemplates :
           Remapped(t, request.aspect_ratio, result.response.image_url)
    /\ result.response.prompt = request.prompt
    /\ result.response.aspect_ratio = request.aspect_ratio
    /\ result.response.error = None

FailureShape ==
    /\ result.response.success = FALSE
    /\ result.response.image_url = None
    /\ result.response.prompt = request.prompt
    /\ result.response.aspect_ratio = request.aspect_ratio
    /\ result.response.error # None

\* C1: the list used is that of the first category, in the order nature,
\* city, abstract, space, dark, minimal, whose name occurs in the lower-cased
\* prompt-plus-style text; a later category whose name occurs too is never
\* the one used, wherever in the prompt or the style the names stand.
C1_CategoryPrecedence ==
    Returned =>
        \A i \in 1..Len(CategoryNames) :
            /\ sample_wallpapers[i].category = CategoryNames[i]
            /\ (Occurs(i) /\ \A j \in 1..(i - 1) : ~Occurs(j))
                   => result.selected_wallpapers = Bucket(i)
            /\ (Occurs(i) /\ \E j \in 1..(i - 1) : Occurs(j))
                   => result.selected_wallpapers # Bucket(i)

\* "minimal" stands before "dark" in the prompt, and the dark list is used
C1_Witness ==
    /\ Returned
    /\ request.prompt = Str("Minimal dark")
    /\ request.style = NoStr
    /\ result.selected_wallpapers = Bucket(5)

\* C2: the default list (four entries) is the one used if and only if no
\* category name occurs in the lower-cased prompt-plus-style text.
C2_DefaultFallback ==
    Returned =>
        /\ Len(default_wallpapers) = 4
        /\ (result.selected_wallpapers = default_wallpapers) <=> NoneOccurs
        /\ (result.response.success /\ NoneOccurs)
               => \E k \in DOMAIN default_wallpapers :
                      Remapped(default_wallpapers[k], request.aspect_ratio,
                               result.response.image_url)

C2_Witness ==
    /\ Returned
    /\ request.prompt = Str("quantum physics diagram")
    /\ request.style = NoStr
    /\ result.selected_wallpapers = default_wallpapers
    /\ result.response.success

\* C3: whenever wallpaper_index is computed it lies in
\* 0 .. len(selected list) - 1, and no list that can be selected is empty.
C3_IndexBounds ==
    Returned =>
        /\ Len(default_wallpapers) >= 1
        /\ \A i \in 1..Len(sample_wallpapers) : Len(Bucket(i)) >= 1
        /\ Len(result.selected_wallpapers) >= 1
        /\ IndexAssigned =>
               /\ result.wallpaper_index >= 0
               /\ result.wallpaper_index <= Len(result.selected_wallpapers) - 1

\* the last position of the longest list is reached
C3_Witness ==
    /\ Returned
    /\ result.selected_wallpapers = default_wallpapers
    /\ IndexAssigned
    /\ result.wallpaper_index = 3

\* C5: the image_url returned is the chosen template with "w=512&h=910"
\* replaced by "w=910&h=512" for "16:9", by "w=512&h=512" for "1:1", by
\* "w=512&h=683" for "3:4", and the template itself for every other ratio;
\* whatever the ratio, once a template is chosen the request succeeds, and
\* the response's aspect_ratio is the requested one.
C5_AspectRatioRemap ==
    Returned =>
        /\ result.response.aspect_ratio = request.aspect_ratio
        /\ TemplateChosen =>
               /\ result.response.success
               /\ Remapped(Template, request.aspect_ratio,
                           result.response.image_url)

C5_Witness ==
    /\ Returned
    /\ request.aspect_ratio = "3:4"
    /\ request.prompt = Str("sky")
    /\ result.response.image_url =
         "https://images.unsplash.com/photo-1506905925346-21bda4d32df4?w=512&h=683&fit=crop&auto=format"

\* C6 as stated: an empty prompt, whatever the style, gives a text with
\* nothing to match (at most the separator), the default list, and
\* success=true with an image of the default list.
C6_EmptyPromptAlwaysDefault ==
    (Returned /\ request.prompt = << >>) =>
        /\ ClaimText \in {<< >>, <<32>>}
        /\ result.selected_wallpapers = default_wallpapers
        /\ result.response.success
        /\ \E k \in DOMAIN default_wallpapers :
               Remapped(default_wallpapers[k], request.aspect_ratio,
                        result.response.image_url)

\* C6 (amended): an empty prompt is accepted and answered with success=true;
\* its text is a space followed by the lower-cased style, so the list used
\* is the default one exactly when no category name occurs in the style
\* (the first such category's list otherwise); the position is 0xd4 modulo
\* the list's length, hence the first default image when the style is absent
\* or names no category.
C6_EmptyPromptByStyle ==
    (Returned /\ request.prompt = << >>) =>
        /\ ClaimText = <<32>> \o lower(IF request.style = NoStr THEN << >>
                                       ELSE request.style[1])
        /\ result.response.success
        /\ (result.selected_wallpapers = default_wallpapers) <=> NoneOccurs
        /\ \A i \in 1..Len(CategoryNames) :
               (Occurs(i) /\ \A j \in 1..(i - 1) : ~Occurs(j))
                   => result.selected_wallpapers = Bucket(i)
        /\ IndexAssigned
        /\ result.wallpaper_index = 212 % Len(result.selected_wallpapers)
        /\ NoneOccurs => Remapped(default_wallpapers[1], request.aspect_ratio,
                                  result.response.image_url)

\* an empty prompt with style "nature" is served from the nature list
C6_Witness ==
    /\ Returned
    /\ request.prompt = << >>
    /\ request.style = Some(Str("nature"))
    /\ result.selected_wallpapers = Bucket(1)
    /\ result.wallpaper_index = 2
    /\ result.response.success

\* C7 as stated: every request gets the normal shape.
C7_AlwaysNormalShape == Returned => NormalShape

\* C7 (amended): every request whose prompt can be encoded as UTF-8 (holds
\* no surrogate code point) gets the normal shape; a prompt that cannot gets
\* the success=false shape, prompt and aspect_ratio echoed.
C7_NormalShapeIfEncodable ==
    Returned =>
        IF \A i \in 1..Len(request.prompt) :
               request.prompt[i] < 55296 \/ request.prompt[i] > 57343
        THEN NormalShape
        ELSE FailureShape

\* a prompt outside ASCII that encodes, answered normally
C7_Witness ==
    /\ Returned
    /\ request.prompt = Str("caf") \o <<233>>
    /\ request.aspect_ratio = "21:9"
    /\ NormalShape

\* C8: wallpaper_index is the value of the first two hex characters of the
\* MD5 digest of the prompt as sent (not lower-cased), modulo the length of
\* the list used; style and aspect_ratio enter only through that list.
C8_IndexSource ==
    (Returned /\ IndexAssigned) =>
        /\ result.wallpaper_index =
               int16(SubSeq(hexdigest(md5(encode(request.prompt))), 1, 2))
                   % Len(result.selected_wallpapers)
        /\ request.prompt = Str("Dark City")
               => result.wallpaper_index = 95 % Len(result.selected_wallpapers)
        /\ request.prompt = Str("Beautiful sunset over mountains with purple sky")
               => result.wallpaper_index = 229 % Len(result.selected_wallpapers)

\* "Dark City" hashes to 0x5f, "dark city" to 0x00: position 1 of the city list
C8_Witness ==
    /\ Returned
    /\ request.prompt = Str("Dark City")
    /\ result.selected_wallpapers = Bucket(2)
    /\ IndexAssigned
    /\ result.wallpaper_index = 1

\* The handler has no await: a request is received and answered in one step
\* of the event loop.  `logged` says whether the exchange is recorded.
PostWallpaper(r, logged) ==
    /\ IF logged
       THEN /\ request' = r
            /\ result' = generate_wallpaper(r)
            /\ pc' = IF pc = "idle" THEN "returned" ELSE "repeated"
            /\ first' = IF pc = "idle"
                        THEN [request |-> r, response |-> result'.response]
                        ELSE first
       ELSE UNCHANGED wallpaper_vars
    /\ UNCHANGED <<agent_vars, status_checks>>

(***************************************************************************)
(* POST /api/chat                                                          *)
(***************************************************************************)

\* (variant: the test without `is None`)
needs_init_Unguarded(agent_type, type, handle) == agent_type = type

\* `request.agent_type == <type> and <handle> is None` (lines 118, 121)
needs_init(agent_type, type, handle) == agent_type = type /\ handle = NoAgent

\* (variant: an agent only for the two known types)
select_agent_Strict(agent_type, search, chat) ==
    IF agent_type = "search" THEN search
    ELSE IF agent_type = "chat" THEN chat
    ELSE NoAgent

\* agent = search_agent if request.agent_type == "search" else chat_agent
select_agent(agent_type, search, chat) ==
    IF agent_type = "search" THEN search ELSE chat

\* the ChatResponse built in the except branch (lines 144-150)
\* (executed_by: the agent whose execute() was awaited, NoAgent if none was)
chat_failure(agent_type, e, agent) ==
    [status  |-> 200,
     success |-> FALSE, response |-> "", agent_type |-> agent_type,
     capabilities |-> << >>, error |-> e, executed_by |-> agent]

\* the ChatResponse built from the agent's response (lines 133-140)
chat_answer(task, outcome) ==
    [status  |-> 200,
     success |-> outcome = "ok", response |-> "content",
     agent_type |-> task.agent_type,
     capabilities |-> <<"capabilities">>,
     error |-> IF outcome = "ok" THEN None ELSE "error",
     executed_by |-> task.agent]

\* Lines 116-131, up to the await.  built says whether the agent's
\* constructor returns (TRUE) or raises (FALSE).
ChatBegin(agent_type, built, logged) ==
    LET init_search == needs_init(agent_type, "search", search_agent)
        init_chat   == ~init_search /\ needs_init(agent_type, "chat", chat_agent)
        search      == IF init_search THEN agents_built + 1 ELSE search_agent
        chat        == IF init_chat THEN agents_built + 1 ELSE chat_agent
        agent       == select_agent(agent_type, search, chat)
    IN  IF (init_search \/ init_chat) /\ ~built
        THEN \* the constructor raises: except branch, nothing assigned
             /\ chat_reply' = IF logged THEN chat_failure(agent_type, "constructor", NoAgent)
                              ELSE chat_reply
             /\ UNCHANGED <<search_agent, chat_agent, agents_built, inflight>>
        ELSE /\ (init_search \/ init_chat) => agents_built < MaxAgents
             /\ search_agent' = search
             /\ chat_agent' = chat
             /\ agents_built' = IF init_search \/ init_chat
                                THEN agents_built + 1 ELSE agents_built
             /\ IF agent = NoAgent
                THEN \* raise HTTPException(500), caught by except Exception
                     /\ chat_reply' = IF logged
                                      THEN chat_failure(agent_type, "HTTPException", NoAgent)
                                      ELSE chat_reply
                     /\ UNCHANGED inflight
                ELSE /\ BagCardinality(inflight) < MaxInflight
                     /\ inflight' = inflight (+) SetToBag({
                            [handler |-> "chat", agent_type |-> agent_type,
                             agent |-> agent]})
                     /\ UNCHANGED chat_reply

\* agent.execute(...) ends and the handler returns (lines 131-150)
ChatEnd(task, outcome, logged) ==
    /\ BagIn(task, inflight)
    /\ task.handler = "chat"
    /\ inflight' = inflight (-) SetToBag({task})
    /\ chat_reply' = IF ~logged THEN chat_reply
                     ELSE IF outcome = "raised"
                     THEN chat_failure(task.agent_type, "error", task.agent)
                     ELSE chat_answer(task, outcome)
    /\ UNCHANGED <<search_agent, chat_agent, agents_built>>

(***************************************************************************)
(* POST /api/search                                                        *)
(***************************************************************************)

\* Lines 158-165, up to the await
SearchBegin(built) ==
    LET init == search_agent = NoAgent IN
    IF init /\ ~built
    THEN UNCHANGED <<search_agent, agents_built, inflight>>
    ELSE /\ init => agents_built < MaxAgents
         /\ search_agent' = IF init THEN agents_built + 1 ELSE search_agent
         /\ agents_built' = IF init THEN agents_built + 1 ELSE agents_built
         /\ BagCardinality(inflight) < MaxInflight
         /\ inflight' = inflight (+) SetToBag({
                [handler |-> "search", agent_type |-> "search",
                 agent |-> search_agent']})

\* search_agent.execute(...) ends and the handler returns (lines 165-192)
SearchEnd(task) ==
    /\ BagIn(task, inflight)
    /\ task.handler = "search"
    /\ inflight' = inflight (-) SetToBag({task})
    /\ UNCHANGED <<search_agent, agents_built>>

(***************************************************************************)
(* GET /api/agents/capabilities, /api/status                               *)
(***************************************************************************)

\* Two agents are built, asked for their capabilities and dropped; neither
\* is stored in a handle.
get_agent_capabilities == UNCHANGED <<search_agent, chat_agent, agents_built>>

create_status_check(client_name) ==
    /\ Len(status_checks) < MaxStatus
    /\ status_checks' = Append(status_checks, client_name)

get_status_checks == UNCHANGED status_checks

(***************************************************************************)
(* The running server                                                      *)
(***************************************************************************)

ServerInit ==
    /\ pc = "idle"
    /\ request = NoRequest
    /\ result = NoResult
    /\ first = NoResult
    /\ ServerStart

Wallpaper(logged) ==
    \E r \in ServerRequests : PostWallpaper(r, logged)

Chat(logged) ==
    /\ \/ \E t \in AgentTypes, built \in BOOLEAN : ChatBegin(t, built, logged)
       \/ \E task \in BagToSet(inflight), o \in ExecuteOutcomes :
              ChatEnd(task, o, logged)
    /\ UNCHANGED <<wallpaper_vars, status_checks>>

Search ==
    /\ \/ \E built \in BOOLEAN : SearchBegin(built)
       \/ \E task \in BagToSet(inflight) : SearchEnd(task)
    /\ UNCHANGED <<wallpaper_vars, chat_agent, chat_reply, status_checks>>

Capabilities ==
    /\ get_agent_capabilities
    /\ UNCHANGED <<wallpaper_vars, inflight, chat_reply, status_checks>>

Status ==
    /\ \/ \E c \in ClientNames : create_status_check(c)
       \/ get_status_checks
    /\ UNCHANGED <<wallpaper_vars, agent_vars>>

\* the server as seen by a client that records the wallpaper exchanges
ServerNext ==
    \/ Wallpaper(TRUE)
    \/ Chat(FALSE)
    \/ Search
    \/ Capabilities
    \/ Status

ServerSpec == ServerInit /\ [][ServerNext]_vars

\* the server as seen by a client that records the chat replies
AgentNext ==
    \/ Wallpaper(FALSE)
    \/ Chat(TRUE)
    \/ Search
    \/ Capabilities
    \/ Status

AgentSpec == ServerInit /\ [][AgentNext]_vars

(***************************************************************************)
(* Properties of the running server                                        *)
(***************************************************************************)

HandleOf(task) ==
    IF task.agent_type = "search" THEN search_agent ELSE chat_agent

\* a handle changes only from None to an agent
AssignedOnce(handle, handle_next) ==
    handle_next # handle => (handle = NoAgent /\ handle_next # NoAgent)

\* C9 (AgentSpec): in every step of every interleaving each handle is
\* assigned only while None and is never reassigned or reset afterwards;
\* every suspended chat or search handler runs on the agent its handle
\* holds; a capabilities request leaves both handles as they are.
C9_LazySingletons ==
    /\ [](\A task \in BagToSet(inflight) :
              task.agent # NoAgent /\ task.agent = HandleOf(task))
    /\ [][/\ AssignedOnce(search_agent, search_agent')
          /\ AssignedOnce(chat_agent, chat_agent')
          /\ Capabilities => UNCHANGED <<search_agent, chat_agent>>]_vars

\* two handlers suspended on the one search agent, the chat agent set too
C9_Witness ==
    /\ search_agent # NoAgent
    /\ chat_agent # NoAgent
    /\ \E task \in BagToSet(inflight) :
           /\ task.agent_type = "search"
           /\ task.agent = search_agent
           /\ CopiesIn(task, inflight) = 2

Unrecognised == AgentTypes \ {"chat", "search"}

\* C10 (AgentSpec): a chat request with an unrecognised agent_type builds no
\* agent and assigns no handle.  While chat_agent is None it is answered at
\* once, as a normal reply (status 200) with success=false, response "",
\* capabilities [] and error set, nothing being executed; once chat_agent is
\* set it is suspended on the chat agent, and its reply carries the
\* unrecognised agent_type and was executed by that agent.
C10_UnrecognisedAgentType ==
    /\ [](chat_reply # NoReply /\ chat_reply.agent_type \in Unrecognised
            => /\ chat_reply.status = 200
               /\ chat_reply.executed_by = NoAgent
                    => /\ chat_reply.success = FALSE
                       /\ chat_reply.response = ""
                       /\ chat_reply.capabilities = << >>
                       /\ chat_reply.error = "HTTPException"
               /\ chat_reply.executed_by # NoAgent
                    => chat_reply.executed_by = chat_agent)
    /\ [][\A t \in Unrecognised :
            (\E built \in BOOLEAN : ChatBegin(t, built, TRUE))
              => /\ UNCHANGED <<search_agent, chat_agent, agents_built>>
                 /\ chat_agent = NoAgent
                      => /\ inflight' = inflight
                         /\ chat_reply' = chat_failure(t, "HTTPException", NoAgent)
                 /\ chat_agent # NoAgent
                      => /\ chat_reply' = chat_reply
                         /\ inflight' = inflight (+) SetToBag({
                                [handler |-> "chat", agent_type |-> t,
                                 agent |-> chat_agent]})]_vars

\* the reply of an "image" request that the chat agent executed
C10_Witness ==
    /\ chat_reply # NoReply
    /\ chat_reply.agent_type = "image"
    /\ chat_reply.executed_by # NoAgent
    /\ chat_reply.executed_by = chat_agent
    /\ chat_reply.success
====
